---- MODULE Spec2Model ----
(***************************************************************************)
(* A model of download_pdf_from_presigned                                  *)
(* (src/milestone1_collection/utils.py): one call parses a tab-separated   *)
(* manifest, selects a row, resolves a destination name in the output      *)
(* directory, streams the response body into it and checks the PDF         *)
(* signature.                                                              *)
(*                                                                         *)
(* Text (manifest content, fields, file names, URLs, bodies) is a sequence *)
(* of one-character strings.  The alphabet of the model has no carriage    *)
(* return, no ';' and no '#'.                                              *)
(***************************************************************************)
EXTENDS Integers, Sequences, FiniteSets, TLC

\* ------------------------------------------------------------------ bounds

\* Lines per manifest in the parsing specification.
MaxLines == 2
\* Calls one caller makes, one after another.
MaxCalls == 2
\* Files the other process creates in the racing specification.
MaxOther == 1

\* -------------------------------------------------------------------- text

TAB == "\t"
NL == "\n"
QUOTE == "\""

Take(s, n) == SubSeq(s, 1, IF n < Len(s) THEN n ELSE Len(s))

Drop(s, n) == SubSeq(s, n + 1, Len(s))

\* str.startswith
StartsWith(s, prefix) == Len(s) >= Len(prefix) /\ Take(s, Len(prefix)) = prefix

\* str.endswith
EndsWith(s, suffix) ==
    Len(s) >= Len(suffix) /\ Drop(s, Len(s) - Len(suffix)) = suffix

\* str.find of one character out of a set, from position `from`; 0 when absent.
RECURSIVE FindFrom(_, _, _)
FindFrom(s, cs, from) ==
    IF from > Len(s) THEN 0
    ELSE IF s[from] \in cs THEN from
    ELSE FindFrom(s, cs, from + 1)

\* str.rfind of one character; 0 when absent.
RECURSIVE RFind(_, _, _)
RFind(s, c, from) ==
    IF from < 1 THEN 0
    ELSE IF s[from] = c THEN from
    ELSE RFind(s, c, from - 1)

IsSpace(c) == c \in {" ", TAB, NL}

RECURSIVE LStrip(_)
LStrip(s) == IF s # <<>> /\ IsSpace(Head(s)) THEN LStrip(Tail(s)) ELSE s

RECURSIVE RStrip(_)
RStrip(s) ==
    IF s # <<>> /\ IsSpace(s[Len(s)]) THEN RStrip(SubSeq(s, 1, Len(s) - 1)) ELSE s

\* str.strip
Strip(s) == RStrip(LStrip(s))

LowerChar(c) ==
    CASE c = "H" -> "h"
      [] c = "T" -> "t"
      [] c = "P" -> "p"
      [] c = "D" -> "d"
      [] c = "F" -> "f"
      [] c = "K" -> "k"
      [] OTHER -> c

\* str.lower
Lower(s) == [k \in 1..Len(s) |-> LowerChar(s[k])]

\* The decimal digits of a positive integer, as f"{i}" writes them.
RECURSIVE DecimalStr(_)
DecimalStr(n) ==
    LET d == <<"0", "1", "2", "3", "4", "5", "6", "7", "8", "9">>[(n % 10) + 1]
    IN IF n < 10 THEN <<d>> ELSE Append(DecimalStr(n \div 10), d)

\* -------------------------------------------------------------- csv.reader

(***************************************************************************)
(* csv.reader(f, delimiter="\t") with the default dialect otherwise:       *)
(* quotechar '"', doublequote, no escapechar, not strict.  The reader is   *)
(* fed the file line by line; after the characters of a line it is given   *)
(* the end-of-line mark, and it yields a record whenever that leaves it at *)
(* the start of a record.                                                  *)
(***************************************************************************)
CsvStart == [state |-> "START_RECORD", field |-> <<>>, fields |-> <<>>, records |-> <<>>]

SaveField(st) == [st EXCEPT !.fields = Append(@, st.field), !.field = <<>>]

CsvChar(st, c) ==
    CASE st.state \in {"START_RECORD", "START_FIELD"} ->
            IF c = NL
            THEN IF st.state = "START_RECORD" THEN [st EXCEPT !.state = "EAT_CRNL"]
                 ELSE [SaveField(st) EXCEPT !.state = "EAT_CRNL"]
            ELSE IF c = QUOTE THEN [st EXCEPT !.state = "IN_QUOTED_FIELD"]
            ELSE IF c = TAB THEN [SaveField(st) EXCEPT !.state = "START_FIELD"]
            ELSE [st EXCEPT !.field = Append(@, c), !.state = "IN_FIELD"]
      [] st.state = "IN_FIELD" ->
            IF c = NL THEN [SaveField(st) EXCEPT !.state = "EAT_CRNL"]
            ELSE IF c = TAB THEN [SaveField(st) EXCEPT !.state = "START_FIELD"]
            ELSE [st EXCEPT !.field = Append(@, c)]
      [] st.state = "IN_QUOTED_FIELD" ->
            IF c = QUOTE THEN [st EXCEPT !.state = "QUOTE_IN_QUOTED_FIELD"]
            ELSE [st EXCEPT !.field = Append(@, c)]
      [] st.state = "QUOTE_IN_QUOTED_FIELD" ->
            IF c = QUOTE THEN [st EXCEPT !.field = Append(@, c), !.state = "IN_QUOTED_FIELD"]
            ELSE IF c = TAB THEN [SaveField(st) EXCEPT !.state = "START_FIELD"]
            ELSE IF c = NL THEN [SaveField(st) EXCEPT !.state = "EAT_CRNL"]
            ELSE [st EXCEPT !.field = Append(@, c), !.state = "IN_FIELD"]
      [] st.state = "EAT_CRNL" ->
            IF c = NL THEN st ELSE [st EXCEPT !.state = "ERROR"]
      [] OTHER -> st

\* The end-of-line mark after the last character of a line, and the record
\* the reader yields when the mark leaves it at the start of a record.
CsvEol(st) ==
    LET marked ==
            CASE st.state \in {"START_FIELD", "IN_FIELD", "QUOTE_IN_QUOTED_FIELD"} ->
                    [SaveField(st) EXCEPT !.state = "START_RECORD"]
              [] st.state = "EAT_CRNL" -> [st EXCEPT !.state = "START_RECORD"]
              [] OTHER -> st
    IN IF marked.state = "START_RECORD"
       THEN [marked EXCEPT !.records = Append(@, marked.fields), !.fields = <<>>]
       ELSE marked

\* One character of the input, and the end-of-line mark when it ends a line.
CsvFeed(st, text, k) ==
    LET after == CsvChar(st, text[k])
    IN IF text[k] = NL \/ k = Len(text) THEN CsvEol(after) ELSE after

\* The characters lo..hi of the input, in order; nothing is read after the
\* reader's error (a character after a line end inside a line).  The range
\* is halved to keep the evaluation shallow.
RECURSIVE CsvRun(_, _, _, _)
CsvRun(st, text, lo, hi) ==
    IF lo > hi THEN st
    ELSE IF lo = hi THEN CsvFeed(st, text, lo)
    ELSE LET mid == (lo + hi) \div 2
             left == CsvRun(st, text, lo, mid)
         IN IF left.state = "ERROR" THEN left ELSE CsvRun(left, text, mid + 1, hi)

\* The end of the input: a pending field, or an open quoted field, is saved
\* and the record yielded.
CsvEof(st) ==
    IF st.field # <<>> \/ st.state = "IN_QUOTED_FIELD"
    THEN Append(st.records, Append(st.fields, st.field))
    ELSE st.records

\* The records csv.reader yields for a file's content.
CsvRecords(text) == CsvEof(CsvRun(CsvStart, text, 1, Len(text)))

\* ------------------------------------------------- pathlib and urllib.parse

Letters ==
    {"a", "b", "d", "f", "h", "k", "p", "r", "t", "x",
     "D", "F", "H", "K", "P", "T"}

SchemeChars == Letters \cup {"0", "1", "2", "3", "4", "5", "6", "7", "8", "9", ".", "-"}

RECURSIVE RemoveChars(_, _)
RemoveChars(s, cs) ==
    IF s = <<>> THEN <<>>
    ELSE IF Head(s) \in cs THEN RemoveChars(Tail(s), cs)
    ELSE <<Head(s)>> \o RemoveChars(Tail(s), cs)

\* urlparse(url).path: tabs and newlines are removed, a leading scheme and
\* a "//netloc" are split off, and the path ends at the first '?'.
UrlPath(url) ==
    LET clean == RemoveChars(LStrip(url), {TAB, NL})
        colon == FindFrom(clean, {":"}, 1)
        hasScheme ==
            /\ colon > 1
            /\ clean[1] \in Letters
            /\ \A k \in 1..(colon - 1) : clean[k] \in SchemeChars
        rest == IF hasScheme THEN Drop(clean, colon) ELSE clean
        delim == FindFrom(rest, {"/", "?"}, 3)
        afterNetloc ==
            IF StartsWith(rest, <<"/", "/">>)
            THEN (IF delim = 0 THEN <<>> ELSE Drop(rest, delim - 1))
            ELSE rest
        query == FindFrom(afterNetloc, {"?"}, 1)
    IN IF query = 0 THEN afterNetloc ELSE Take(afterNetloc, query - 1)

\* Path(s).name: the last component of s that is neither empty nor ".".
RECURSIVE Basename(_)
Basename(s) ==
    LET slash == RFind(s, "/", Len(s))
        last == Drop(s, slash)
    IN IF s = <<>> THEN <<>>
       ELSE IF last = <<>> \/ last = <<".">>
            THEN (IF slash = 0 THEN <<>> ELSE Basename(Take(s, slash - 1)))
       ELSE last

\* The position of the dot that starts the suffix of a file name, 0 when the
\* name has no suffix (PurePath.suffix: 0 < i < len(name) - 1).
SuffixDot(fname) ==
    LET dot == RFind(fname, ".", Len(fname))
    IN IF dot > 1 /\ dot < Len(fname) THEN dot ELSE 0

\* Path(name).suffix
Suffix(fname) == IF SuffixDot(fname) = 0 THEN <<>> ELSE Drop(fname, SuffixDot(fname) - 1)

\* Path(name).stem
Stem(fname) == IF SuffixDot(fname) = 0 THEN fname ELSE Take(fname, SuffixDot(fname) - 1)

DotPdf == <<".", "p", "d", "f">>

\* Lines 63-67: the S3 key's basename, else the URL path's, else "paper.pdf";
\* ".pdf" is appended unless the name ends with it in any letter case.
DeriveName(s3key, url) ==
    LET fromRow == IF s3key # <<>> THEN Basename(s3key) ELSE Basename(UrlPath(url))
        fname == IF fromRow = <<>> THEN <<"p", "a", "p", "e", "r">> \o DotPdf ELSE fromRow
    IN IF EndsWith(Lower(fname), DotPdf) THEN fname ELSE fname \o DotPdf

\* Line 73: dest.suffix or ".pdf"
SuffixOrPdf(fname) == IF Suffix(fname) = <<>> THEN DotPdf ELSE Suffix(fname)

\* The alternative names counted from 0.
AltNameFromZero(base, k, suffix) ==
    base \o <<" ", "(">> \o DecimalStr(k - 1) \o <<")">> \o suffix

\* Line 76: f"{base} ({i}){suffix}"
AltName(base, k, suffix) == base \o <<" ", "(">> \o DecimalStr(k) \o <<")">> \o suffix

\* ----------------------------------------------------------------- inputs

Http == <<"h", "t", "t", "p">>

UrlA == Http \o <<":", "/", "/", "h", "/", "a">>

UrlB == Http \o <<":", "/", "/", "h", "/", "b", ".", "p", "d", "f", "?", "x">>

KeyA == <<"K", ".", "P", "D", "F">>

Line(rel, s3key, url) == rel \o <<TAB>> \o s3key \o <<TAB>> \o url \o <<NL>>

\* The lines manifests are made of: well formed, with an empty key, with
\* too few fields, without an http URL, with a field that opens with a
\* double quote, with padded fields and upper case, with a quoted URL, with
\* an extra field.
LinePool ==
    { Line(<<"r">>, KeyA, UrlA),
      Line(<<>>, <<>>, UrlB),
      <<"x", NL>>,
      Line(<<"r">>, <<"d", "/", "k">>, <<"f", "t", "p">>),
      Line(<<"r">>, <<QUOTE, "k">>, UrlA),
      Line(<<" ", "r">>, <<"k", " ">>, <<" ", "H", "T", "T", "P", ":", "/", "/", "h">>),
      Line(<<"r">>, <<"k">>, <<QUOTE>> \o UrlA \o <<QUOTE>>),
      Line(<<"r">>, <<"k">>, UrlA \o <<TAB, "x">>) }

RECURSIVE ManifestsUpTo(_)
ManifestsUpTo(n) ==
    IF n = 0 THEN {<<>>}
    ELSE LET shorter == ManifestsUpTo(n - 1)
         IN shorter \cup {m \o l : m \in shorter, l \in LinePool}

NoFile == [exists |-> FALSE, text |-> <<>>]

TsvOf(text) == [exists |-> TRUE, text |-> text]

\* The manifest of the end-to-end scenarios: two rows with http URLs and a
\* malformed line.
ExampleManifest == Line(<<"r">>, KeyA, UrlA) \o Line(<<>>, <<>>, UrlB) \o <<"b", "a", "d", NL>>

\* The manifests of the download specification.
DownloadManifests ==
    { NoFile,
      TsvOf(ExampleManifest),
      TsvOf(Line(<<"r">>, <<"d", "/", "k">>, <<"f", "t", "p">>)) }

IndexPool == -1..2

PdfMagic == <<"%", "P", "D", "F">>

\* Response bodies, as the chunks they arrive in.
BodyPool ==
    { << PdfMagic, <<"1">> >>,
      << <<"%", "P">>, <<"D", "F">> >>,
      << <<"%", "P", "D">> >>,
      << <<"<", "h", "t", "m", "l">> >>,
      << >> }

OldData == <<"o", "l", "d">>

\* The file name "<stem> (k)<suffix>".
Numbered(stem, k, suffix) == stem \o <<" ", "(">> \o DecimalStr(k) \o <<")">> \o suffix

\* What the output directory holds before the first call.
InitialNames ==
    { {},
      {KeyA},
      {Numbered(<<"K">>, 1, <<".", "P", "D", "F">>)},
      {KeyA, Numbered(<<"K">>, 1, <<".", "P", "D", "F">>)},
      {KeyA, Numbered(<<"K">>, 2, <<".", "P", "D", "F">>)},
      {KeyA, Numbered(<<"K">>, 1, DotPdf)},
      {<<"b">> \o DotPdf} }

\* ------------------------------------------------------------------ state

Procs == {1, 2}

VARIABLES
    useRequests,  \* whether `import requests` succeeded (lines 6-10)
    tsvFile,      \* the manifest file at tsv_path
    dirExists,    \* whether out_dir exists
    files,        \* the files of out_dir: name -> content
    others,       \* files created by the other process so far
    pc,           \* where each caller is in the function
    calls,        \* calls each caller has made
    args,         \* index, skip_missing, overwrite of the call
    rows, row, name, dest, i,
    resp,         \* the remote's answer and how many chunks were read
    e,            \* the exception caught at line 96
    fh,           \* the handle opened on dest for writing
    magic,
    result,       \* what the call returned or raised
    requested,    \* the URLs the call has requested
    pre,          \* out_dir as it was when the call started
    history       \* the successful calls since the last overwrite=True call

vars ==
    <<useRequests, tsvFile, dirExists, files, others, pc, calls, args, rows, row,
      name, dest, i, resp, e, fh, magic, result, requested, pre, history>>

env == <<useRequests, tsvFile, others>>

NoArgs == [index |-> 0, skip_missing |-> TRUE, overwrite |-> FALSE]

\* No answer: status 0.  `broken` marks a connection that failed (timeout,
\* reset, DNS), before the answer or while the body was read.
NoResp == [status |-> 0, body |-> <<>>, pos |-> 0, broken |-> FALSE]

Broken == [NoResp EXCEPT !.broken = TRUE]

NoHandle == [state |-> "none", off |-> 0]

NoResult == [kind |-> "none", exc |-> "", msg |-> "", detail |-> <<>>]

NoPre == [dir |-> FALSE, files |-> <<>>]

Raised(exc, msg, detail) == [kind |-> "raised", exc |-> exc, msg |-> msg, detail |-> detail]

Returned(path) == [kind |-> "returned", exc |-> "", msg |-> "", detail |-> path]

\* dest.resolve(): the absolute path of a name in out_dir.
Resolve(n) == [absolute |-> TRUE, dir |-> "out_dir", name |-> n]

InitLocals ==
    /\ pc = [p \in Procs |-> "idle"]
    /\ calls = [p \in Procs |-> 0]
    /\ args = [p \in Procs |-> NoArgs]
    /\ rows = [p \in Procs |-> <<>>]
    /\ row = [p \in Procs |-> <<>>]
    /\ name = [p \in Procs |-> <<>>]
    /\ dest = [p \in Procs |-> <<>>]
    /\ i = [p \in Procs |-> 0]
    /\ resp = [p \in Procs |-> NoResp]
    /\ e = [p \in Procs |-> <<>>]
    /\ fh = [p \in Procs |-> NoHandle]
    /\ magic = [p \in Procs |-> <<>>]
    /\ result = [p \in Procs |-> NoResult]
    /\ requested = [p \in Procs |-> <<>>]
    /\ pre = [p \in Procs |-> NoPre]
    /\ history = <<>>
    /\ others = 0

InitDir(nameSets) ==
    \E names \in nameSets, d \in BOOLEAN :
        /\ names # {} => d
        /\ dirExists = d
        /\ files = [n \in names |-> OldData]

Init ==
    /\ useRequests \in BOOLEAN
    /\ tsvFile \in DownloadManifests
    /\ InitDir(InitialNames)
    /\ InitLocals

\* ------------------------------------------------------------ file system

PathExists(fs, n) == n \in DOMAIN fs

\* The loop of line 75 without its test.
DestNeverExists(fs, n) == FALSE

\* Line 75: dest.exists()
DestExists(fs, n) == PathExists(fs, n)

\* open(n, "wb"): the file is created, or truncated in place.
Truncate(fs, n) == [m \in DOMAIN fs \cup {n} |-> IF m = n THEN <<>> ELSE fs[m]]

\* os.remove(n), the OSError of a missing file swallowed.
Remove(fs, n) == [m \in DOMAIN fs \ {n} |-> fs[m]]

\* The handles open on a removed file keep writing to it, out of sight.
Unlink(handles, dests, n) ==
    [q \in Procs |->
        IF dests[q] = n /\ handles[q].state = "open"
        THEN [handles[q] EXCEPT !.state = "unlinked"]
        ELSE handles[q]]

RECURSIVE Zeros(_)
Zeros(n) == IF n <= 0 THEN <<>> ELSE <<"\\0">> \o Zeros(n - 1)

\* A write that keeps only what is written at offset 0.
WriteFirstOnly(data, off, chunk) == IF off = 0 THEN chunk ELSE data

\* fh.write(chunk) at the handle's offset.
WriteAt(data, off, chunk) ==
    Take(data, off) \o Zeros(off - Len(data)) \o chunk \o Drop(data, off + Len(chunk))

RECURSIVE Flatten(_)
Flatten(chunks) == IF chunks = <<>> THEN <<>> ELSE Head(chunks) \o Flatten(Tail(chunks))

\* ------------------------------------------------------ parse and select

\* Lines 44-48: a record is kept when it has at least three fields and,
\* with skip_missing, its stripped third field starts with "http" in any
\* letter case.
KeepRecord(fields, skip_missing) ==
    /\ Len(fields) >= 3
    /\ skip_missing => StartsWith(Lower(Strip(fields[3])), Http)

\* Lines 41-49
RECURSIVE RowsOf(_, _)
RowsOf(records, skip_missing) ==
    IF records = <<>> THEN <<>>
    ELSE LET fields == Head(records)
             rest == RowsOf(Tail(records), skip_missing)
         IN IF KeepRecord(fields, skip_missing)
            THEN << <<Strip(fields[1]), Strip(fields[2]), Strip(fields[3])>> >> \o rest
            ELSE rest

ParseRows(text, skip_missing) == RowsOf(CsvRecords(text), skip_missing)

\* Line 53
IndexInRange(index, n) == ~(index < 0 \/ index >= n)

\* The range reported as [0, len].
RangeHiLen(n) == n

\* Line 54: the upper end of the range the IndexError reports.
RangeHi(n) == n - 1

\* The call starts: the caller passes index, skip_missing and overwrite.
CallWith(p, limit, indexes, skips, overwrites) ==
    /\ pc[p] = "idle"
    /\ calls[p] < limit
    /\ \E index \in indexes, skip \in skips, ow \in overwrites :
        /\ args' = [args EXCEPT ![p] =
                        [index |-> index, skip_missing |-> skip, overwrite |-> ow]]
        /\ history' = IF ow THEN <<>> ELSE history
    /\ pc' = [pc EXCEPT ![p] = "start"]
    /\ calls' = [calls EXCEPT ![p] = @ + 1]
    /\ pre' = [pre EXCEPT ![p] = [dir |-> dirExists, files |-> files]]
    /\ UNCHANGED <<env, dirExists, files, rows, row, name, dest, i, resp, e, fh,
                   magic, result, requested>>

Call(p) == CallWith(p, MaxCalls, IndexPool, BOOLEAN, BOOLEAN)

\* Lines 37-56, which leave out_dir as `dir`.
ParseSelectWith(p, dir) ==
    /\ pc[p] = "start"
    /\ LET parsed == IF tsvFile.exists
                     THEN ParseRows(tsvFile.text, args[p].skip_missing)
                     ELSE <<>>
           index == args[p].index
           raised ==
               IF ~tsvFile.exists
               THEN Raised("FileNotFoundError", "TSV not found", <<>>)
               ELSE IF parsed = <<>>
               THEN Raised("ValueError", "No valid rows", <<>>)
               ELSE IF ~IndexInRange(index, Len(parsed))
               THEN Raised("IndexError", "out of range", <<0, RangeHi(Len(parsed))>>)
               ELSE NoResult
       IN /\ rows' = [rows EXCEPT ![p] = parsed]
          /\ result' = [result EXCEPT ![p] = raised]
          /\ row' = [row EXCEPT ![p] =
                        IF raised = NoResult THEN parsed[index + 1] ELSE <<>>]
          /\ pc' = [pc EXCEPT ![p] = IF raised = NoResult THEN "selected" ELSE "done"]
    /\ dirExists' = dir
    /\ UNCHANGED <<env, files, calls, args, name, dest, i, resp, e, fh, magic,
                   requested, pre, history>>

\* out_dir created before the manifest is read.
ParseSelectMkdirFirst(p) == ParseSelectWith(p, TRUE)

ParseAndSelect(p) == ParseSelectWith(p, dirExists)

\* ------------------------------------------------------------ destination

\* Lines 59-74: out_dir is created, the name derived, the probing set up.
ResolveName(p) ==
    /\ pc[p] = "selected"
    /\ dirExists' = TRUE
    /\ name' = [name EXCEPT ![p] = DeriveName(row[p][2], row[p][3])]
    /\ dest' = [dest EXCEPT ![p] = name'[p]]
    /\ i' = [i EXCEPT ![p] = 1]
    /\ pc' = [pc EXCEPT ![p] = IF args[p].overwrite THEN "download" ELSE "probe"]
    /\ UNCHANGED <<env, files, calls, args, rows, row, resp, e, fh, magic, result,
                   requested, pre, history>>

\* Lines 75-77: one test of the loop, and its body when dest exists.
Probe(p) ==
    /\ pc[p] = "probe"
    /\ IF DestExists(files, dest[p])
       THEN /\ dest' = [dest EXCEPT ![p] =
                           AltName(Stem(name[p]), i[p], SuffixOrPdf(name[p]))]
            /\ i' = [i EXCEPT ![p] = @ + 1]
            /\ pc' = pc
       ELSE /\ pc' = [pc EXCEPT ![p] = "download"]
            /\ UNCHANGED <<dest, i>>
    /\ UNCHANGED <<env, dirExists, files, calls, args, rows, row, name, resp, e, fh,
                   magic, result, requested, pre, history>>

\* --------------------------------------------------------------- transfer

IsHttpUrl(url) == StartsWith(Lower(url), Http \o <<":", "/", "/">>)

Answer(status, body) == [status |-> status, body |-> body, pos |-> 0, broken |-> FALSE]

\* What a request can meet: a failed connection, or a status with a body.  A
\* URL that is no http URL is rejected by the client without a request.
Answers(url) ==
    IF IsHttpUrl(url)
    THEN {Broken}
         \cup {Answer(200, b) : b \in BodyPool}
         \cup {Answer(206, b) : b \in {<<PdfMagic>>, <<>>}}
         \cup {Answer(403, <<>>)}
    ELSE {NoResp}

\* Lines 81-83: requests.get and the status check.
RequestsGet(p) ==
    /\ pc[p] = "download"
    /\ useRequests
    /\ \E answer \in Answers(row[p][3]) :
        /\ resp' = [resp EXCEPT ![p] = answer]
        /\ result' = [result EXCEPT ![p] =
                        IF answer.status = 0
                        THEN Raised("RequestException", "request failed", <<>>)
                        ELSE IF answer.status # 200
                        THEN Raised("ValueError", "HTTP status", <<answer.status>>)
                        ELSE NoResult]
        /\ pc' = [pc EXCEPT ![p] = IF answer.status = 200 THEN "open" ELSE "done"]
    /\ requested' = [requested EXCEPT ![p] =
                        IF IsHttpUrl(row[p][3]) THEN <<row[p][3]>> ELSE <<>>]
    /\ UNCHANGED <<env, dirExists, files, calls, args, rows, row, name, dest, i, e,
                   fh, magic, pre, history>>

\* Line 90, first item: urlopen raises URLError for a failed connection,
\* ValueError for a URL it does not know and HTTPError for a status outside
\* 200..299.
UrlOpen(p) ==
    /\ pc[p] = "download"
    /\ ~useRequests
    /\ \E answer \in Answers(row[p][3]) :
        /\ resp' = [resp EXCEPT ![p] = answer]
        /\ e' = [e EXCEPT ![p] =
                    IF answer.broken THEN <<"URLError">>
                    ELSE IF answer.status = 0 THEN <<"ValueError">>
                    ELSE IF answer.status \notin 200..299
                    THEN <<"HTTPError", answer.status>>
                    ELSE <<>>]
        /\ pc' = [pc EXCEPT ![p] = IF answer.status \in 200..299 THEN "open" ELSE "cleanup"]
    /\ requested' = [requested EXCEPT ![p] =
                        IF IsHttpUrl(row[p][3]) THEN <<row[p][3]>> ELSE <<>>]
    /\ UNCHANGED <<env, dirExists, files, calls, args, rows, row, name, dest, i,
                   fh, magic, result, pre, history>>

\* Line 84, and line 90, second item: open(dest, "wb").
OpenDest(p) ==
    /\ pc[p] = "open"
    /\ files' = Truncate(files, dest[p])
    /\ fh' = [fh EXCEPT ![p] = [state |-> "open", off |-> 0]]
    /\ pc' = [pc EXCEPT ![p] = "stream"]
    /\ UNCHANGED <<env, dirExists, calls, args, rows, row, name, dest, i, resp, e,
                   magic, result, requested, pre, history>>

\* Lines 85-87 and 91-95: the next chunk is read and written.
NextChunk(p) ==
    /\ pc[p] = "stream"
    /\ resp[p].pos < Len(resp[p].body)
    /\ LET chunk == resp[p].body[resp[p].pos + 1]
       IN /\ files' = IF fh[p].state = "open" /\ chunk # <<>>
                      THEN [files EXCEPT ![dest[p]] = WriteAt(@, fh[p].off, chunk)]
                      ELSE files
          /\ fh' = [fh EXCEPT ![p].off = @ + Len(chunk)]
    /\ resp' = [resp EXCEPT ![p].pos = @ + 1]
    /\ UNCHANGED <<env, dirExists, pc, calls, args, rows, row, name, dest, i, e,
                   magic, result, requested, pre, history>>

\* The body ends: the with block closes the file.
EndOfStream(p) ==
    /\ pc[p] = "stream"
    /\ resp[p].pos = Len(resp[p].body)
    /\ fh' = [fh EXCEPT ![p].state = "closed"]
    /\ pc' = [pc EXCEPT ![p] = "validate"]
    /\ UNCHANGED <<env, dirExists, files, calls, args, rows, row, name, dest, i,
                   resp, e, magic, result, requested, pre, history>>

\* The connection fails while the body is read.  The with block closes the
\* file; with requests the exception leaves the function (lines 84-87), with
\* urllib it is caught at line 96.
StreamFail(p) ==
    /\ pc[p] = "stream"
    /\ resp' = [resp EXCEPT ![p].broken = TRUE]
    /\ fh' = [fh EXCEPT ![p].state = "closed"]
    /\ IF useRequests
       THEN /\ result' = [result EXCEPT ![p] =
                             Raised("RequestException", "request failed", <<>>)]
            /\ pc' = [pc EXCEPT ![p] = "done"]
            /\ e' = e
       ELSE /\ e' = [e EXCEPT ![p] = <<"URLError">>]
            /\ pc' = [pc EXCEPT ![p] = "cleanup"]
            /\ result' = result
    /\ UNCHANGED <<env, dirExists, files, calls, args, rows, row, name, dest, i,
                   magic, requested, pre, history>>

\* Lines 96-100: dest is removed and the failure raised as a ValueError.
Cleanup(p) ==
    /\ pc[p] = "cleanup"
    /\ files' = Remove(files, dest[p])
    /\ fh' = Unlink(fh, dest, dest[p])
    /\ result' = [result EXCEPT ![p] = Raised("ValueError", "Download failed", e[p])]
    /\ pc' = [pc EXCEPT ![p] = "done"]
    /\ UNCHANGED <<env, dirExists, calls, args, rows, row, name, dest, i, resp, e,
                   magic, requested, pre, history>>

\* ------------------------------------------------------------- validation

\* The signature compared on three bytes.
LooksLikePdfOnThree(m) == Take(m, 3) = Take(PdfMagic, 3)

\* Line 105
LooksLikePdf(m) == Take(m, 4) = PdfMagic

\* Lines 103-110: the first five bytes are read back; a file without the
\* signature is removed, otherwise the absolute path is returned.
Validate(p) ==
    /\ pc[p] = "validate"
    /\ IF ~PathExists(files, dest[p])
       THEN /\ result' = [result EXCEPT ![p] =
                             Raised("FileNotFoundError", "open", <<>>)]
            /\ UNCHANGED <<files, fh, magic, history>>
       ELSE /\ magic' = [magic EXCEPT ![p] = Take(files[dest[p]], 5)]
            /\ IF LooksLikePdf(magic'[p])
               THEN /\ result' = [result EXCEPT ![p] = Returned(Resolve(dest[p]))]
                    /\ history' =
                          IF args[p].overwrite THEN history
                          ELSE Append(history, [row |-> row[p], path |-> dest[p],
                                                data |-> files[dest[p]]])
                    /\ UNCHANGED <<files, fh>>
               ELSE /\ files' = Remove(files, dest[p])
                    /\ fh' = Unlink(fh, dest, dest[p])
                    /\ result' = [result EXCEPT ![p] =
                                     Raised("ValueError", "not a PDF", <<>>)]
                    /\ history' = history
    /\ pc' = [pc EXCEPT ![p] = "done"]
    /\ UNCHANGED <<env, dirExists, calls, args, rows, row, name, dest, i, resp, e,
                   requested, pre>>

\* The caller has the result; the call's locals are gone.
Finish(p) ==
    /\ pc[p] = "done"
    /\ pc' = [pc EXCEPT ![p] = "idle"]
    /\ args' = [args EXCEPT ![p] = NoArgs]
    /\ rows' = [rows EXCEPT ![p] = <<>>]
    /\ row' = [row EXCEPT ![p] = <<>>]
    /\ name' = [name EXCEPT ![p] = <<>>]
    /\ dest' = [dest EXCEPT ![p] = <<>>]
    /\ i' = [i EXCEPT ![p] = 0]
    /\ resp' = [resp EXCEPT ![p] = NoResp]
    /\ e' = [e EXCEPT ![p] = <<>>]
    /\ fh' = [fh EXCEPT ![p] = NoHandle]
    /\ magic' = [magic EXCEPT ![p] = <<>>]
    /\ result' = [result EXCEPT ![p] = NoResult]
    /\ requested' = [requested EXCEPT ![p] = <<>>]
    /\ pre' = [pre EXCEPT ![p] = NoPre]
    /\ UNCHANGED <<env, dirExists, files, calls, history>>

Steps(p) ==
    \/ ParseAndSelect(p)
    \/ ResolveName(p)
    \/ Probe(p)
    \/ RequestsGet(p)
    \/ UrlOpen(p)
    \/ OpenDest(p)
    \/ NextChunk(p)
    \/ EndOfStream(p)
    \/ StreamFail(p)
    \/ Cleanup(p)
    \/ Validate(p)
    \/ Finish(p)

\* One caller, one call after another.
Next == Call(1) \/ Steps(1)

Spec == Init /\ [][Next]_vars

\* ------------------------------------------------- parsing specification

\* One call on a manifest of up to MaxLines lines, up to the selected row.
InitSelect ==
    /\ useRequests \in BOOLEAN
    /\ tsvFile \in {TsvOf(m) : m \in ManifestsUpTo(MaxLines)}
    /\ InitDir({{}})
    /\ InitLocals

CallOnce(p) == CallWith(p, 1, IndexPool, BOOLEAN, {FALSE})

NextSelect == CallOnce(1) \/ ParseAndSelect(1) \/ Finish(1)

SpecSelect == InitSelect /\ [][NextSelect]_vars

\* -------------------------------------------------- racing specification

OtherData == <<"o", "t", "h", "e", "r">>

\* The names the other process may create: the ones a caller probes.
RaceNames == {KeyA, Numbered(<<"K">>, 1, <<".", "P", "D", "F">>)}

InitRace ==
    /\ useRequests \in BOOLEAN
    /\ tsvFile = TsvOf(Line(<<"r">>, KeyA, UrlA))
    /\ InitDir({{}, {KeyA}})
    /\ InitLocals

\* Another process creates a file in out_dir.
OtherCreate ==
    /\ others < MaxOther
    /\ \E n \in RaceNames \ DOMAIN files :
        files' = [m \in DOMAIN files \cup {n} |-> IF m = n THEN OtherData ELSE files[m]]
    /\ others' = others + 1
    /\ dirExists' = TRUE
    /\ UNCHANGED <<useRequests, tsvFile, pc, calls, args, rows, row, name, dest, i,
                   resp, e, fh, magic, result, requested, pre, history>>

CallRace(p) == CallWith(p, 1, {0}, {TRUE}, {FALSE})

\* Two callers with overwrite=False and the other process, interleaved.
NextRace == OtherCreate \/ \E p \in Procs : CallRace(p) \/ Steps(p)

SpecRace == InitRace /\ [][NextRace]_vars

\* ----------------------------------------------------------------- claims

\* The error kinds of the specification, read off what the code raises.
IsManifestNotFound(r) == r.kind = "raised" /\ r.msg = "TSV not found"

IsEmptyManifest(r) == r.kind = "raised" /\ r.msg = "No valid rows"

IsIndexOutOfRange(r) == r.kind = "raised" /\ r.msg = "out of range"

IsHttpStatusError(r, status) ==
    /\ r.kind = "raised"
    /\ \/ r.msg = "HTTP status" /\ r.detail = <<status>>
       \/ r.msg = "Download failed" /\ r.detail = <<"HTTPError", status>>

IsTransferError(r) ==
    /\ r.kind = "raised"
    /\ \/ r.exc = "RequestException"
       \/ r.msg = "Download failed" /\ r.detail = <<"URLError">>

IsInvalidFormat(r) == r.kind = "raised" /\ r.msg = "not a PDF"

\* The whole response body.
BodyOf(p) == Flatten(resp[p].body)

\* The files of out_dir that were not there when the call started.
NewFiles(p) == DOMAIN files \ DOMAIN pre[p].files

\* C1: a call whose connection failed, before the answer or while the body
\* was read, fails with a transfer error and leaves no file it began writing
\* at the destination path.
C1_NetworkFailureLeavesNoFile ==
    \A p \in Procs :
        (pc[p] = "done" /\ resp[p].broken) =>
            /\ IsTransferError(result[p])
            /\ fh[p].state # "none" => ~PathExists(files, dest[p])

\* C2: a call the remote answers with a status other than 200 fails with the
\* HTTP status error carrying that status, and out_dir holds the same files
\* with the same contents as before the call.
C2_Non200LeavesOutDirUnchanged ==
    \A p \in Procs :
        (pc[p] = "done" /\ resp[p].status \notin {0, 200} /\ ~resp[p].broken) =>
            /\ IsHttpStatusError(result[p], resp[p].status)
            /\ files = pre[p].files

\* C3: a call whose transfer completes with status 200 and whose body does
\* not begin with %PDF fails with the invalid-format error, and no file is
\* left at the destination path.
C3_NonPdfBodyIsRemoved ==
    \A p \in Procs :
        (/\ pc[p] = "done"
         /\ resp[p].status = 200
         /\ ~resp[p].broken
         /\ ~StartsWith(BodyOf(p), PdfMagic)) =>
            /\ IsInvalidFormat(result[p])
            /\ ~PathExists(files, dest[p])

C3_Witness ==
    \E p \in Procs :
        /\ pc[p] = "done"
        /\ resp[p].status = 200
        /\ ~resp[p].broken
        /\ BodyOf(p) = <<"%", "P", "D">>
        /\ fh[p].state = "closed"
        /\ IsInvalidFormat(result[p])

\* C4: successful calls with overwrite=False, one after another: two calls
\* for the same row return distinct paths, and the file of every earlier call
\* is still there with the content it was returned with.
C4_EarlierDownloadsSurvive ==
    /\ \A a, b \in 1..Len(history) :
        (a < b /\ history[a].row = history[b].row) => history[a].path # history[b].path
    /\ \A a \in 1..Len(history) :
        /\ PathExists(files, history[a].path)
        /\ files[history[a].path] = history[a].data

C4_Witness ==
    /\ Len(history) >= 2
    /\ history[1].row = history[2].row
    /\ pc[1] = "done"
    /\ result[1].kind = "returned"

\* C5 as stated: after a successful call exactly one file is new in out_dir,
\* whatever overwrite is and whether or not the derived name existed; it is at
\* the returned absolute path, holds the whole body and begins with %PDF.
C5_ExactlyOneNewFile ==
    \A p \in Procs :
        (pc[p] = "done" /\ result[p].kind = "returned") =>
            /\ NewFiles(p) = {dest[p]}
            /\ result[p].detail = [absolute |-> TRUE, dir |-> "out_dir", name |-> dest[p]]
            /\ files[dest[p]] = BodyOf(p)
            /\ Take(files[dest[p]], 4) = PdfMagic

\* C5 amended: after a successful call the file at the returned absolute path
\* holds the whole body and begins with %PDF; it is the one new file of
\* out_dir, unless overwrite is true and the derived name existed, when it
\* replaces that file and no file is new.
C5_OneNewFileUnlessOverwritten ==
    \A p \in Procs :
        (pc[p] = "done" /\ result[p].kind = "returned") =>
            /\ IF args[p].overwrite /\ PathExists(pre[p].files, name[p])
               THEN NewFiles(p) = {} /\ dest[p] = name[p]
               ELSE NewFiles(p) = {dest[p]}
            /\ result[p].detail = [absolute |-> TRUE, dir |-> "out_dir", name |-> dest[p]]
            /\ PathExists(files, dest[p])
            /\ files[dest[p]] = BodyOf(p)
            /\ Take(files[dest[p]], 4) = PdfMagic

C5_Witness ==
    \E p \in Procs :
        /\ pc[p] = "done"
        /\ result[p].kind = "returned"
        /\ args[p].overwrite
        /\ PathExists(pre[p].files, name[p])
        /\ Len(resp[p].body) = 2

\* C6 as stated: on an existing manifest, an index outside [0, len-1] of the
\* filtered rows always fails with the index error, which reports the range
\* [0, len-1]; len = 0 included.
C6_OutOfRangeIsAlwaysIndexError ==
    \A p \in Procs :
        (/\ pc[p] = "done"
         /\ tsvFile.exists
         /\ args[p].index \notin 0..(Len(rows[p]) - 1)) =>
            result[p] = Raised("IndexError", "out of range", <<0, Len(rows[p]) - 1>>)

\* C6 amended: on an existing manifest with at least one filtered row, an
\* index outside [0, len-1] fails with the index error, which reports the
\* range [0, len-1]; with no filtered row every index fails with the
\* empty-manifest error.
C6_OutOfRangeOfNonEmptyIsIndexError ==
    \A p \in Procs :
        (/\ pc[p] = "done"
         /\ tsvFile.exists
         /\ args[p].index \notin 0..(Len(rows[p]) - 1)) =>
            IF Len(rows[p]) >= 1
            THEN result[p] = Raised("IndexError", "out of range", <<0, Len(rows[p]) - 1>>)
            ELSE IsEmptyManifest(result[p])

C6_Witness ==
    \E p \in Procs :
        /\ pc[p] = "done"
        /\ Len(rows[p]) = 2
        /\ args[p].index = 2
        /\ IsIndexOutOfRange(result[p])

\* The pieces of a text between the occurrences of a separator.
RECURSIVE SplitOn(_, _)
SplitOn(s, sep) ==
    LET at == FindFrom(s, {sep}, 1)
    IN IF at = 0 THEN <<s>> ELSE <<Take(s, at - 1)>> \o SplitOn(Drop(s, at), sep)

RECURSIVE SelectLines(_, _)
SelectLines(lines, skip_missing) ==
    IF lines = <<>> THEN <<>>
    ELSE LET fields == SplitOn(Head(lines), TAB)
             rest == SelectLines(Tail(lines), skip_missing)
         IN IF /\ Len(fields) >= 3
               /\ skip_missing => StartsWith(Lower(Strip(fields[3])), Http)
            THEN <<fields>> \o rest
            ELSE rest

\* The lines of a manifest with at least three tab-separated fields and,
\* with skip_missing, a third field that starts with "http".
WellFormedLines(text, skip_missing) == SelectLines(SplitOn(text, NL), skip_missing)

\* C7: the row a call selects for an in-range index is the index-th, in file
\* order, of the lines with at least three tab-separated fields (with
\* skip_missing: whose trimmed third field starts with "http" in any case).
C7_SelectsIndexthWellFormedLine ==
    \A p \in Procs :
        (pc[p] \in {"selected", "done"} /\ tsvFile.exists) =>
            LET kept == WellFormedLines(tsvFile.text, args[p].skip_missing)
            IN args[p].index \in 0..(Len(kept) - 1) =>
                /\ pc[p] = "selected"
                /\ row[p][3] = Strip(kept[args[p].index + 1][3])

\* C8: a call that fails because the manifest is missing, no row is left or
\* the index is out of range has created neither out_dir nor a file, changed
\* no file and requested nothing.
C8_SelectionErrorsHaveNoEffect ==
    \A p \in Procs :
        (/\ pc[p] = "done"
         /\ \/ IsManifestNotFound(result[p])
            \/ IsEmptyManifest(result[p])
            \/ IsIndexOutOfRange(result[p])) =>
            /\ dirExists = pre[p].dir
            /\ files = pre[p].files
            /\ requested[p] = <<>>

C8_Witness ==
    \E p \in Procs :
        /\ pc[p] = "done"
        /\ IsIndexOutOfRange(result[p])
        /\ ~dirExists

\* C9: with overwrite=False a call never opens for writing a path at which a
\* file exists when it is opened.
C9_NeverOpensAnExistingPath ==
    [][\A p \in Procs :
          (pc[p] = "open" /\ pc'[p] = "stream" /\ ~args[p].overwrite) =>
              ~PathExists(files, dest[p])]_vars

\* The least k >= 1 for which "<stem> (k)<suffix>" is not among the names.
LeastFree(stem, suffix, names) ==
    CHOOSE k \in 1..(Cardinality(names) + 1) :
        /\ Numbered(stem, k, suffix) \notin names
        /\ \A j \in 1..(k - 1) : Numbered(stem, j, suffix) \in names

Resolved(derived, names, overwrite, suffix) ==
    IF overwrite \/ derived \notin names THEN derived
    ELSE Numbered(Stem(derived), LeastFree(Stem(derived), suffix, names), suffix)

\* C10 as stated: the probing ends within one more step than out_dir has
\* files, and the destination is the derived name when overwrite is true or
\* no file has that name, otherwise "<stem> (k).pdf" for the least free k.
C10_ResolvesToLeastFreeDotPdf ==
    \A p \in Procs :
        /\ pc[p] = "probe" => i[p] <= Cardinality(DOMAIN files) + 1
        /\ pc[p] = "download" =>
              dest[p] = Resolved(name[p], DOMAIN files, args[p].overwrite, DotPdf)

\* C10 amended: as stated, but the alternative name is "<stem> (k)<suffix>"
\* with the suffix of the derived name as it is written (".PDF" stays
\* ".PDF"), and ".pdf" when the derived name has no suffix.
C10_ResolvesToLeastFreeOwnSuffix ==
    \A p \in Procs :
        /\ pc[p] = "probe" => i[p] <= Cardinality(DOMAIN files) + 1
        /\ pc[p] = "download" =>
              dest[p] = Resolved(name[p], DOMAIN files, args[p].overwrite,
                                 IF Suffix(name[p]) = <<>> THEN DotPdf ELSE Suffix(name[p]))

C10_Witness ==
    \E p \in Procs :
        /\ pc[p] = "download"
        /\ ~args[p].overwrite
        /\ dest[p] = Numbered(<<"K">>, 2, <<".", "P", "D", "F">>)

====
